---- MODULE Spec2Model ----
(***************************************************************************)
(* kernel_curve (src/src/stress.py): Gaussian-kernel regression with a     *)
(* weighted bootstrap band, evaluated over a grid of shock values.         *)
(*                                                                         *)
(* Numbers.  Shocks (x, grid, sigma) live on an integer lattice.  A weight *)
(* is a float64 in the code; here it is an integer count of the smallest   *)
(* positive value of the number format (here 1/1000), so that np.exp       *)
(* underflows to exactly 0 and is quantised just above underflow, as       *)
(* float64 is in its subnormal range.  FNaN is the float NaN.  Means and   *)
(* percentiles are exact fractions <<num, den>> in lowest terms; NaN is    *)
(* the fraction <<0, 0>>.                                                  *)
(***************************************************************************)
EXTENDS Integers, Sequences, FiniteSets, TLC

\* ------------------------------------------------------------------ bounds
MaxN    == 2      \* longest series x, y
MaxGrid == 2      \* longest grid
MaxBoot == 2      \* largest n_boot
MaxBlock == 4     \* highest block number
MaxStep == 3      \* largest step of chunked_get_logs

XVals      == {28, 35}          \* observed shocks
YVals      == {1, 3}            \* observed outcome counts
GridVals   == {0, 28, 100}      \* 0: in the kernels' tails; 28: on an observation; 100: beyond underflow
SigmaVals  == {0, 9, 10}        \* zero and two bandwidths
MinEffVals == {0, 1, 2}
SeedVals   == {7, 42}           \* 42 is the default seed
Calls      == {1, 2}

\* ------------------------------------------------------------- arithmetic
Abs(n) == IF n < 0 THEN -n ELSE n

RECURSIVE GCD(_, _)
GCD(a, b) == IF b = 0 THEN a ELSE GCD(b, a % b)

NaN == <<0, 0>>

\* the fraction n/d (d > 0, n >= 0) in lowest terms
Frac(n, d) == LET g == GCD(n, d) IN <<n \div g, d \div g>>

FracLess(a, b) == a[1] * b[2] < b[1] * a[2]

RECURSIVE SumOver(_, _)
SumOver(f, n) == IF n = 0 THEN 0 ELSE f[n] + SumOver(f, n - 1)

\* --------------------------------------------------------- the float model
FNaN == -1

\* round(1000 * exp(-d^2 / (2 s^2))) for d = 0, 1, ... up to the last
\* non-zero value; every larger d underflows to 0.
GaussTab ==
  [s \in {9, 10} |->
     IF s = 9
     THEN <<1000, 994, 976, 946, 906, 857, 801, 739, 674, 607, 539, 474, 411,
            352, 298, 249, 206, 168, 135, 108, 85, 66, 50, 38, 29, 21, 15, 11,
            8, 6, 4, 3, 2, 1, 1, 1>>
     ELSE <<1000, 995, 980, 956, 923, 882, 835, 783, 726, 667, 607, 546, 487,
            430, 375, 325, 278, 236, 198, 164, 135, 110, 89, 71, 56, 44, 34,
            26, 20, 15, 11, 8, 6, 4, 3, 2, 2, 1, 1>>]

\* np.exp(-((xi - g)**2) / (2 * sigma**2)).  sigma = 0 divides by zero:
\* -inf (weight 0) where xi # g, 0/0 = NaN where xi = g.  sigma enters squared.
GaussWeight(xi, g, sigma) ==
  LET d == Abs(xi - g)
      s == Abs(sigma)
  IN  IF sigma = 0 THEN (IF d = 0 THEN FNaN ELSE 0)
      ELSE IF d < Len(GaussTab[s]) THEN GaussTab[s][d + 1] ELSE 0

\* line 9: the weight vector at grid point g
Weights(xv, g, sigma) == [i \in 1..Len(xv) |-> GaussWeight(xv[i], g, sigma)]

HasNaN(w) == \E i \in 1..Len(w) : w[i] = FNaN

\* w.max() of a non-empty vector (NaN propagates)
WMax(w) ==
  IF HasNaN(w) THEN FNaN
  ELSE CHOOSE m \in {w[i] : i \in 1..Len(w)} : \A i \in 1..Len(w) : w[i] <= m

\* w.sum() (NaN propagates; the empty sum is 0)
WSum(w) == IF HasNaN(w) THEN FNaN ELSE SumOver(w, Len(w))

\* the relevance threshold 0.1 = 1/10
ThresholdDen == 10

\* line 10: int((w / (w.max() if w.max() else 1) > 0.1).sum()); a comparison
\* with NaN is False
NEff(w) ==
  LET m   == WMax(w)
      den == IF m # 0 THEN m ELSE 1
  IN  IF den = FNaN THEN 0
      ELSE Cardinality({i \in 1..Len(w) : ThresholdDen * w[i] > den})

\* line 12 without the zero-sum test
UnderdeterminedNoSumTest(w, min_eff_n) == NEff(w) < min_eff_n

\* line 12 without the effective-sample test
UnderdeterminedNoEffTest(w, min_eff_n) == WSum(w) = 0

\* line 12: n_eff < min_eff_n or w.sum() == 0
Underdetermined(w, min_eff_n) == NEff(w) < min_eff_n \/ WSum(w) = 0

\* np.average(yv[samp], weights=w[samp]) for an index vector samp
Average(yv, w, samp) ==
  IF \E j \in 1..Len(samp) : w[samp[j]] = FNaN THEN NaN
  ELSE Frac(SumOver([j \in 1..Len(samp) |-> w[samp[j]] * yv[samp[j]]], Len(samp)),
            SumOver([j \in 1..Len(samp) |-> w[samp[j]]], Len(samp)))

\* np.average raises: TypeError when the shapes differ, ZeroDivisionError
\* when the weights sum to zero
AverageRaises(yv, w, samp) ==
  \/ Len(yv) # Len(w)
  \/ SumOver([j \in 1..Len(samp) |-> w[samp[j]]], Len(samp)) = 0

\* ------------------------------------------------------------ the generator
\* np.random.default_rng(seed) is a seeded linear congruential generator
\* (PCG64); here with a 4-bit state.  A draw advances the state and returns
\* it as the uniform variate state / RngMod in [0, 1).
RngMod == 16
RngMul == 5
RngInc == 3
Entropy == {3, 12}

\* line 5 with the seed not passed on: default_rng() seeds itself from entropy
DefaultRngUnseeded(seed, entropy) == [state |-> entropy, draws |-> 0]

\* line 5: the generator is created from the seed; operating-system entropy
\* is used by default_rng only when no seed is given
DefaultRng(seed, entropy) == [state |-> seed % RngMod, draws |-> 0]

Advance(r) == [state |-> (RngMul * r.state + RngInc) % RngMod, draws |-> r.draws + 1]

\* cdf = cumsum(p); searchsorted(cdf, u, side='right') with p = w / w.sum():
\* the number of cdf entries <= u, as a 1-based index
Pick(w, u) ==
  1 + Cardinality({i \in 1..Len(w) : RngMod * SumOver(w, i) <= u * SumOver(w, Len(w))})

\* line 18: rng.choice(idx, size=len(idx), replace=True, p=w / w.sum()),
\* the first k of the len(idx) draws
Draw(w, samp, r) == [samp |-> Append(samp, Pick(w, r.state)), rng |-> r]

DrawNext(w, prev) == Draw(w, prev.samp, Advance(prev.rng))

RECURSIVE Choice(_, _, _)
Choice(w, r, k) ==
  IF k = 0 THEN [samp |-> <<>>, rng |-> r]
  ELSE DrawNext(w, Choice(w, r, k - 1))

\* lines 16-19: the first b resample means, and the generator after them
\* line 19: the mean of one resample c, appended to the means so far
Resampled(yv, w, prev, c) ==
  IF AverageRaises(yv, w, c.samp)
  THEN [bs |-> prev.bs, rng |-> c.rng, raised |-> TRUE]
  ELSE [bs |-> Append(prev.bs, Average(yv, w, c.samp)), rng |-> c.rng, raised |-> FALSE]

Resample(yv, w, prev) ==
  IF prev.raised THEN prev ELSE Resampled(yv, w, prev, Choice(w, prev.rng, Len(w)))

RECURSIVE Bootstrap(_, _, _, _)
Bootstrap(yv, w, r, b) ==
  IF b <= 0 THEN [bs |-> <<>>, rng |-> r, raised |-> FALSE]
  ELSE Resample(yv, w, Bootstrap(yv, w, r, b - 1))

\* ------------------------------------------------------------- percentiles
RECURSIVE Insert(_, _)
Insert(s, v) ==
  IF s = <<>> THEN <<v>>
  ELSE IF FracLess(v, Head(s)) THEN <<v>> \o s
       ELSE <<Head(s)>> \o Insert(Tail(s), v)

RECURSIVE Sorted(_)
Sorted(s) == IF s = <<>> THEN <<>> ELSE Insert(Sorted(Tail(s)), Head(s))

\* a + (b - a) * fr / 4
Lerp(a, b, fr) == Frac(a[1] * b[2] * (4 - fr) + b[1] * a[2] * fr, 4 * a[2] * b[2])

\* np.nanpercentile(bs, 25 * quarters), linear interpolation at the virtual
\* index (n - 1) * quarters / 4; NaN for an empty bs
Percentile(bs, quarters) ==
  IF bs = <<>> THEN NaN
  ELSE LET s  == Sorted(bs)
           h  == (Len(bs) - 1) * quarters
           lo == h \div 4
           fr == h % 4
       IN  IF fr = 0 THEN s[lo + 1] ELSE Lerp(s[lo + 1], s[lo + 2], fr)

\* ------------------------------------------------------------------- state
VARIABLES
  args,      \* per call: x, y, grid, sigma, n_boot, min_eff_n, seed
  pc,        \* per call: "wait", "ready", "running", "done", "raised"
  err,       \* per call: the exception that ended it, or "none"
  rng,       \* per call: its generator
  est, p25, p75, effN,   \* per call: the accumulating lists
  weighted,  \* per call: how many weight vectors (line 9) it has computed
  table      \* per call: the returned table (a sequence of rows)

kvars == <<args, pc, err, rng, est, p25, p75, effN, weighted, table>>

\* the retrieval of logs (api.py)
VARIABLES
  logargs,   \* the call: fn, start_block, end_block, step, max_retry
  chain,     \* the blocks that carry a matching log entry, as the explorer knows them
  lpc,       \* "idle", "while" (line 138), "for" (line 102), "done", "raised"
  lerr,      \* the exception that ended the call, or "none"
  cur,       \* chunked_get_logs: the first block not yet asked for
  params,    \* get_logs: fromBlock and toBlock of its requests
  tries,     \* get_logs: the HTTP requests it has issued
  asked,     \* chunked_get_logs: the ranges it has passed to get_logs
  out        \* the entries gathered so far; the returned list when lpc = "done"

logvars == <<logargs, chain, lpc, lerr, cur, params, tries, asked, out>>

vars == <<kvars, logvars>>

SeqsUpTo(S, n) == UNION {[1..k -> S] : k \in 0..n}

\* a y one element longer than x (its values are never read: np.average
\* rejects the shapes first)
Longer(x) == [i \in 1..(Len(x) + 1) |-> 1]

\* the observations are listed by increasing shock
Ascending(x) == \A i \in 1..(Len(x) - 1) : x[i] <= x[i + 1]

Series ==
  {s \in [x : SeqsUpTo(XVals, MaxN), y : SeqsUpTo(YVals, MaxN + 1)] :
     Ascending(s.x) /\ (Len(s.y) = Len(s.x) \/ s.y = Longer(s.x))}

\* the arguments of a call: series of equal length, or y one longer than x
Inputs ==
  {[x |-> s.x, y |-> s.y, grid |-> p.grid, sigma |-> p.sigma, n_boot |-> p.n_boot,
    min_eff_n |-> p.min_eff_n, seed |-> p.seed] :
     s \in Series,
     p \in [grid : SeqsUpTo(GridVals, MaxGrid), sigma : SigmaVals,
            n_boot : 0..MaxBoot, min_eff_n : MinEffVals, seed : SeedVals]}

\* the preconditions of the contract
ValidSeries(a) == Len(a.x) = Len(a.y) /\ Len(a.x) >= 1

ValidParameters(a) == a.sigma > 0 /\ a.n_boot >= 1 /\ a.min_eff_n >= 1

ValidArgs(a) == ValidSeries(a) /\ ValidParameters(a)

\* the arguments of a repeated call satisfy the preconditions
InputsTwice == {a \in Inputs : ValidArgs(a)}

NoRng == [state |-> 0, draws |-> 0]

InitWith(a, pcs) ==
  /\ args = a
  /\ pc = pcs
  /\ err = [c \in Calls |-> "none"]
  /\ rng = [c \in Calls |-> NoRng]
  /\ est = [c \in Calls |-> <<>>]
  /\ p25 = [c \in Calls |-> <<>>]
  /\ p75 = [c \in Calls |-> <<>>]
  /\ effN = [c \in Calls |-> <<>>]
  /\ weighted = [c \in Calls |-> 0]
  /\ table = [c \in Calls |-> <<>>]

NoParams == [fromBlock |-> 0, toBlock |-> 0]

NoLogArgs == [fn |-> "none", start_block |-> 0, end_block |-> 0, step |-> 0, max_retry |-> 0]

\* no retrieval of logs is going on
LogsIdle ==
  /\ logargs = NoLogArgs
  /\ chain = {}
  /\ lpc = "idle"
  /\ lerr = "none"
  /\ cur = 0
  /\ params = NoParams
  /\ tries = 0
  /\ asked = <<>>
  /\ out = <<>>

\* one call is made
Init ==
  /\ \E a \in Inputs :
       InitWith([c \in Calls |-> a], [c \in Calls |-> IF c = 1 THEN "ready" ELSE "wait"])
  /\ LogsIdle

\* one call is made, and the caller repeats it with the same arguments
InitTwice ==
  /\ \E a \in InputsTwice :
       InitWith([c \in Calls |-> a], [c \in Calls |-> IF c = 1 THEN "ready" ELSE "wait"])
  /\ LogsIdle

\* ----------------------------------------------------------------- actions
\* a generator shared by the whole process (np.random), kept in the first slot
RngOfProcess(c) == 1

\* line 5: rng is a local of the call, so a call draws from its own generator
RngOf(c) == c

\* line 13 with a draw spent on the skipped grid point
ContinueAfterDraw(r) == Advance(r)

\* line 13: continue, before any use of the generator r in the iteration
Continue(r) == r

\* lines 5-7: create the generator, start with empty lists
Call(c) ==
  /\ pc[c] = "ready"
  /\ \E e \in Entropy : rng' = [rng EXCEPT ![RngOf(c)] = DefaultRng(args[c].seed, e)]
  /\ pc' = [pc EXCEPT ![c] = "running"]
  /\ est' = [est EXCEPT ![c] = <<>>]
  /\ p25' = [p25 EXCEPT ![c] = <<>>]
  /\ p75' = [p75 EXCEPT ![c] = <<>>]
  /\ effN' = [effN EXCEPT ![c] = <<>>]
  /\ UNCHANGED <<args, err, weighted, table>>
  /\ UNCHANGED logvars

\* the position of the loop of line 8
Index(c) == Len(est[c]) + 1

Raise(c, e) ==
  /\ pc' = [pc EXCEPT ![c] = "raised"]
  /\ err' = [err EXCEPT ![c] = e]

\* lines 16-22: the bootstrap b of a determined grid point, then the row
Determined(c, a, w, b) ==
  IF b.raised
  THEN \* line 19
       /\ Raise(c, "ZeroDivisionError")
       /\ rng' = [rng EXCEPT ![RngOf(c)] = b.rng]
       /\ UNCHANGED <<est, p25, p75>>
  ELSE \* lines 20-22
       /\ est' = [est EXCEPT ![c] = Append(@, Average(a.y, w, [i \in 1..Len(w) |-> i]))]
       /\ p25' = [p25 EXCEPT ![c] = Append(@, Percentile(b.bs, 1))]
       /\ p75' = [p75 EXCEPT ![c] = Append(@, Percentile(b.bs, 3))]
       /\ rng' = [rng EXCEPT ![RngOf(c)] = b.rng]
       /\ UNCHANGED <<pc, err>>

\* lines 10-22: the rest of an iteration, given the weights w of line 9
Weighted(c, a, w) ==
  IF Len(w) = 0
  THEN \* line 10: max of an empty array
       /\ Raise(c, "ValueError")
       /\ UNCHANGED <<est, p25, p75, effN, rng>>
  ELSE
  /\ effN' = [effN EXCEPT ![c] = Append(@, NEff(w))]
  /\ IF Underdetermined(w, a.min_eff_n)
     THEN \* line 13
          /\ est' = [est EXCEPT ![c] = Append(@, NaN)]
          /\ p25' = [p25 EXCEPT ![c] = Append(@, NaN)]
          /\ p75' = [p75 EXCEPT ![c] = Append(@, NaN)]
          /\ rng' = [rng EXCEPT ![RngOf(c)] = Continue(@)]
          /\ UNCHANGED <<pc, err>>
     ELSE IF AverageRaises(a.y, w, [i \in 1..Len(w) |-> i])
     THEN \* line 14
          /\ Raise(c, IF Len(a.y) # Len(w) THEN "TypeError" ELSE "ZeroDivisionError")
          /\ UNCHANGED <<est, p25, p75, rng>>
     ELSE IF a.n_boot > 0 /\ HasNaN(w)
     THEN \* line 18: probabilities contain NaN
          /\ Raise(c, "ValueError")
          /\ UNCHANGED <<est, p25, p75, rng>>
     ELSE Determined(c, a, w, Bootstrap(a.y, w, rng[RngOf(c)], a.n_boot))

\* lines 8-22: one iteration of the loop over the grid
GridPoint(c) ==
  /\ pc[c] = "running"
  /\ Index(c) <= Len(args[c].grid)
  /\ weighted' = [weighted EXCEPT ![c] = @ + 1]
  /\ Weighted(c, args[c], Weights(args[c].x, args[c].grid[Index(c)], args[c].sigma))
  /\ UNCHANGED <<args, table>>
  /\ UNCHANGED logvars

\* line 23 followed by a dropna(): the rows without an estimate are left out
DataFrameDropNull(grid, e, lo, hi, n) ==
  SelectSeq([k \in 1..Len(grid) |->
               [shock |-> grid[k], est |-> e[k], p25 |-> lo[k], p75 |-> hi[k], effN |-> n[k]]],
            LAMBDA row : row.est # NaN)

\* pd.DataFrame({"shock": grid, "est": est, ...}): one row per list position
DataFrame(grid, e, lo, hi, n) ==
  [k \in 1..Len(grid) |->
     [shock |-> grid[k], est |-> e[k], p25 |-> lo[k], p75 |-> hi[k], effN |-> n[k]]]

\* line 23: the loop is over, the table is returned
Return(c) ==
  /\ pc[c] = "running"
  /\ Index(c) > Len(args[c].grid)
  /\ table' = [table EXCEPT ![c] = DataFrame(args[c].grid, est[c], p25[c], p75[c], effN[c])]
  /\ pc' = [pc EXCEPT ![c] = "done"]
  /\ UNCHANGED <<args, err, rng, est, p25, p75, effN, weighted>>
  /\ UNCHANGED logvars

\* the caller calls again with the same arguments once the first call returned
Again ==
  /\ pc[1] = "done"
  /\ pc[2] = "wait"
  /\ pc' = [pc EXCEPT ![2] = "ready"]
  /\ UNCHANGED <<args, err, rng, est, p25, p75, effN, weighted, table>>
  /\ UNCHANGED logvars

Next ==
  \/ \E c \in Calls : Call(c)
  \/ \E c \in Calls : GridPoint(c)
  \/ \E c \in Calls : Return(c)

Spec == Init /\ [][Next]_vars

NextTwice ==
  \/ \E c \in Calls : Call(c)
  \/ \E c \in Calls : GridPoint(c)
  \/ \E c \in Calls : Return(c)
  \/ Again

SpecTwice == InitTwice /\ [][NextTwice]_vars

\* two calls in flight at once, as the two curves of one figure: the same y
\* and grid, each its own x, bandwidth and seed
PairSigma == [c \in Calls |-> IF c = 1 THEN 9 ELSE 10]

PairArgs(x, y, grid, seed) ==
  [c \in Calls |->
     [x |-> x[c], y |-> y, grid |-> grid, sigma |-> PairSigma[c], n_boot |-> MaxBoot,
      min_eff_n |-> 1, seed |-> seed[c]]]

\* the shared y: successive observations differ
Alternating(y) == \A i \in 1..(Len(y) - 1) : y[i] # y[i + 1]

InitPair ==
  /\ \E y \in {s \in [1..MaxN -> YVals] : Alternating(s)}, grid \in [1..MaxGrid -> GridVals] :
       \E x \in [Calls -> {s \in [1..MaxN -> XVals] : Ascending(s)}], seed \in [Calls -> SeedVals] :
         InitWith(PairArgs(x, y, grid, seed), [c \in Calls |-> "ready"])
  /\ LogsIdle

\* the steps of the two calls interleave in any order
SpecPair == InitPair /\ [][Next]_vars

\* --------------------------------------------------- the retrieval of logs
\* api.py line 72: max_retry: int = 3
DefaultMaxRetry == 3

Blocks == 1..MaxBlock

\* what one requests.get of line 103 can come to:
\*   "answer"  HTTP 200 and the explorer's answer for the range: status "1"
\*             with the entries, or status "0", "No records found" if none
\*   "notok"   HTTP 200, status "0" and another message (rate limit)
\*   "http"    a status code other than 200
\*   "timeout" no response within timeout=60: requests.get raises
\*   "html"    HTTP 200 with a body that is not JSON: r.json() raises
Responses == {"answer", "notok", "http", "timeout", "html"}

Min(a, b) == IF a <= b THEN a ELSE b

\* the entries of the blocks lo..hi, in block order (one entry per block of ch)
RECURSIVE Result(_, _, _)
Result(ch, lo, hi) ==
  IF lo > hi THEN <<>>
  ELSE (IF lo \in ch THEN <<lo>> ELSE <<>>) \o Result(ch, lo + 1, hi)

NoArgs ==
  [x |-> <<>>, y |-> <<>>, grid |-> <<>>, sigma |-> 0, n_boot |-> 0, min_eff_n |-> 0, seed |-> 0]

\* no call of kernel_curve is made
KernelIdle == InitWith([c \in Calls |-> NoArgs], [c \in Calls |-> "wait"])

\* lines 136-137 of a call chunked_get_logs(start_block, end_block, step)
InitChunked ==
  /\ KernelIdle
  /\ \E s \in Blocks, e \in Blocks, st \in 1..MaxStep :
       /\ logargs = [fn |-> "chunked_get_logs", start_block |-> s, end_block |-> e,
                     step |-> st, max_retry |-> DefaultMaxRetry]
       /\ cur = s
  /\ chain \in SUBSET Blocks
  /\ lpc = "while"
  /\ lerr = "none"
  /\ params = NoParams
  /\ tries = 0
  /\ asked = <<>>
  /\ out = <<>>

\* lines 89-101 of a call get_logs(start_block, end_block, max_retry)
InitGetLogs ==
  /\ KernelIdle
  /\ \E s \in Blocks, e \in Blocks, m \in 0..DefaultMaxRetry :
       /\ logargs = [fn |-> "get_logs", start_block |-> s, end_block |-> e,
                     step |-> 0, max_retry |-> m]
       /\ params = [fromBlock |-> s, toBlock |-> e]
  /\ chain \in SUBSET Blocks
  /\ lpc = "for"
  /\ lerr = "none"
  /\ cur = 0
  /\ tries = 0
  /\ asked = <<>>
  /\ out = <<>>

\* lines 138-148: the loop goes on and calls get_logs for the next range
ToBlk == Min(cur + logargs.step - 1, logargs.end_block)

ChunkedGetLogs ==
  /\ lpc = "while"
  /\ cur <= logargs.end_block
  /\ params' = [fromBlock |-> cur, toBlock |-> ToBlk]
  /\ asked' = Append(asked, [fromBlock |-> cur, toBlock |-> ToBlk])
  /\ tries' = 0
  /\ lpc' = "for"
  /\ UNCHANGED <<logargs, chain, lerr, cur, out>>
  /\ UNCHANGED kvars

\* lines 138, 151: the loop is over, out is returned
ChunkedReturn ==
  /\ lpc = "while"
  /\ cur > logargs.end_block
  /\ lpc' = "done"
  /\ UNCHANGED <<logargs, chain, lerr, cur, params, tries, asked, out>>
  /\ UNCHANGED kvars

\* get_logs returns entries: to its caller chunked_get_logs (lines 140, 149)
\* or to the caller of get_logs
GetLogsReturns(entries) ==
  IF logargs.fn = "chunked_get_logs"
  THEN /\ out' = out \o entries
       /\ cur' = params.toBlock + 1
       /\ lpc' = "while"
  ELSE /\ out' = entries
       /\ lpc' = "done"
       /\ UNCHANGED cur

GetLogsRaises(e) ==
  /\ lpc' = "raised"
  /\ lerr' = e
  /\ UNCHANGED <<cur, out>>

\* lines 104-111: what get_logs does with the outcome of its request
Respond(resp) ==
  CASE resp = "answer" ->
         GetLogsReturns(Result(chain, params.fromBlock, params.toBlock)) /\ UNCHANGED lerr
    [] resp \in {"notok", "http"} -> UNCHANGED <<lpc, lerr, cur, out>>
    [] resp = "timeout" -> GetLogsRaises("Timeout")
    [] resp = "html" -> GetLogsRaises("JSONDecodeError")

\* lines 102-111: one pass of the retry loop, one HTTP request
GetLogsRequest ==
  /\ lpc = "for"
  /\ tries < logargs.max_retry
  /\ tries' = tries + 1
  /\ \E resp \in Responses : Respond(resp)
  /\ UNCHANGED <<logargs, chain, params, asked>>
  /\ UNCHANGED kvars

\* line 112: the retries are used up
GetLogsGivesUp ==
  /\ lpc = "for"
  /\ tries >= logargs.max_retry
  /\ GetLogsReturns(<<>>)
  /\ UNCHANGED <<logargs, chain, lerr, params, tries, asked>>
  /\ UNCHANGED kvars

NextChunked ==
  \/ ChunkedGetLogs
  \/ ChunkedReturn
  \/ GetLogsRequest
  \/ GetLogsGivesUp

SpecChunked == InitChunked /\ [][NextChunked]_vars

NextGetLogs ==
  \/ GetLogsRequest
  \/ GetLogsGivesUp

SpecGetLogs == InitGetLogs /\ [][NextGetLogs]_vars

\* ------------------------------------------------------------------ claims
\* the weights of call c at its k-th grid point
WeightsAt(c, k) == Weights(args[c].x, args[c].grid[k], args[c].sigma)

\* every weight of a non-empty vector is exactly zero
AllZero(w) == Len(w) >= 1 /\ \A i \in 1..Len(w) : w[i] = 0

\* the number of observations whose weight over the largest weight exceeds 1/10
RelevantCount(w) ==
  IF HasNaN(w) \/ \A i \in 1..Len(w) : w[i] = 0 THEN 0
  ELSE Cardinality({i \in 1..Len(w) : \A j \in 1..Len(w) : 10 * w[i] > w[j]})

NullTriple(row) == row.est = NaN /\ row.p25 = NaN /\ row.p75 = NaN

\* C1: a call whose x and y differ in length, or are empty, fails with
\* InvalidArgument before any weight vector is computed, and returns no table.
\* Stated for the calls whose grid is not empty and whose other arguments are
\* valid, so that a violation is due to the series alone.
C1_InvalidSeriesRejected ==
  \A c \in Calls :
    (~ValidSeries(args[c]) /\ ValidParameters(args[c]) /\ Len(args[c].grid) >= 1) =>
      /\ weighted[c] = 0
      /\ pc[c] # "done"
      /\ (pc[c] = "raised" => err[c] = "InvalidArgument")

\* C2: a call with sigma <= 0, n_boot <= 0 or min_eff_n <= 0 fails with
\* InvalidArgument before any grid point is processed: no row is produced and
\* no table is returned.  Stated for the calls whose grid is not empty and
\* whose series are valid, so that a violation is due to the parameters alone.
C2_InvalidParametersRejected ==
  \A c \in Calls :
    (~ValidParameters(args[c]) /\ ValidSeries(args[c]) /\ Len(args[c].grid) >= 1) =>
      /\ weighted[c] = 0
      /\ effN[c] = <<>>
      /\ est[c] = <<>>
      /\ pc[c] # "done"
      /\ (pc[c] = "raised" => err[c] = "InvalidArgument")

\* the arguments are valid but for n_boot, which may be 0
ValidButBoot(a) == ValidSeries(a) /\ a.sigma > 0 /\ a.min_eff_n >= 1

\* C3: in every returned table, every row has est, p25 and p75 all null or
\* all non-null.  Stated for the tables of calls whose arguments other than
\* n_boot are valid.
C3_NullTripleConsistent ==
  \A c \in Calls :
    (pc[c] = "done" /\ ValidButBoot(args[c])) =>
      \A k \in 1..Len(table[c]) :
        /\ (table[c][k].est = NaN) <=> (table[c][k].p25 = NaN)
        /\ (table[c][k].est = NaN) <=> (table[c][k].p75 = NaN)

\* C4: in every returned table, est, p25 and p75 of a row are null exactly
\* when the row's effN is below min_eff_n or the weights at its grid point sum
\* to zero, and the row's effN is the count of observations whose weight over
\* the largest weight exceeds 0.1.  Stated for the tables of calls whose
\* arguments other than n_boot are valid.
C4_NullIffUnderdetermined ==
  \A c \in Calls :
    (pc[c] = "done" /\ ValidButBoot(args[c])) =>
      \A k \in 1..Len(table[c]) :
        LET row == table[c][k]
            w   == WeightsAt(c, k)
            under == row.effN < args[c].min_eff_n \/ WSum(w) = 0
        IN  /\ row.effN = RelevantCount(w)
            /\ (row.est = NaN) <=> under
            /\ (row.p25 = NaN) <=> under
            /\ (row.p75 = NaN) <=> under

\* C5: a returned table has exactly len(grid) rows; row k echoes grid[k] in
\* its shock column and carries the effective sample size computed at grid[k].
C5_OneRowPerGridPoint ==
  \A c \in Calls :
    pc[c] = "done" =>
      /\ Len(table[c]) = Len(args[c].grid)
      /\ \A k \in 1..Len(table[c]) :
           /\ table[c][k].shock = args[c].grid[k]
           /\ table[c][k].effN = RelevantCount(WeightsAt(c, k))

\* a table over a grid that is not in increasing order, with different rows
C5_Witness ==
  /\ pc[1] = "done"
  /\ Len(table[1]) = 2
  /\ args[1].grid[1] > args[1].grid[2]
  /\ NullTriple(table[1][1])
  /\ ~NullTriple(table[1][2])
  /\ table[1][1].effN # table[1][2].effN

\* C6: two calls with identical arguments, seed included, return identical
\* tables.
C6_SameArgumentsSameTable ==
  (pc[1] = "done" /\ pc[2] = "done" /\ args[1] = args[2]) => table[1] = table[2]

\* both calls returned a table whose band rests on bootstrap draws
C6_Witness ==
  /\ pc[1] = "done"
  /\ pc[2] = "done"
  /\ args[1] = args[2]
  /\ rng[2].draws > 0
  /\ \E k \in 1..Len(table[2]) :
       table[2][k].est # NaN /\ table[2][k].p25 # table[2][k].p75

\* C7: for fixed x, y and grid point, a bandwidth at least as large gives an
\* effN at least as large.  Stated for the rows of calls with valid arguments.
C7_EffNMonotoneInSigma ==
  \A c \in Calls :
    ValidArgs(args[c]) =>
      \A k \in 1..Len(est[c]) :
        \A s2 \in SigmaVals :
          args[c].sigma <= s2 =>
            effN[c][k] <= NEff(Weights(args[c].x, args[c].grid[k], s2))

\* C8: when every y_i is the same constant, every row with a non-null est
\* has est, p25 and p75 equal to that constant.  Stated for the tables of
\* calls whose arguments other than n_boot are valid.
C8_ConstantSeriesConstantBand ==
  \A c \in Calls :
    \A v \in YVals :
      (pc[c] = "done" /\ ValidButBoot(args[c])
         /\ \A i \in 1..Len(args[c].y) : args[c].y[i] = v) =>
        \A k \in 1..Len(table[c]) :
          table[c][k].est # NaN =>
            /\ table[c][k].est = <<v, 1>>
            /\ table[c][k].p25 = <<v, 1>>
            /\ table[c][k].p75 = <<v, 1>>

\* C9: a grid point at which every weight is exactly zero does not make the
\* call raise; its row has effN 0 and null est, p25, p75, and the loop goes on.
C9_AllZeroWeightsNullRow ==
  \A c \in Calls :
    /\ (pc[c] = "raised" /\ Index(c) <= Len(args[c].grid)) => ~AllZero(WeightsAt(c, Index(c)))
    /\ \A k \in 1..Len(est[c]) :
         AllZero(WeightsAt(c, k)) =>
           /\ effN[c][k] = 0
           /\ est[c][k] = NaN
           /\ p25[c][k] = NaN
           /\ p75[c][k] = NaN

\* every weight underflowed at the first grid point, and the second grid point
\* was then processed and got an estimate
C9_Witness ==
  /\ pc[1] = "done"
  /\ args[1].sigma > 0
  /\ Len(table[1]) = 2
  /\ AllZero(WeightsAt(1, 1))
  /\ table[1][1].effN = 0
  /\ NullTriple(table[1][1])
  /\ ~NullTriple(table[1][2])

\* C10: with a single observation and min_eff_n > 1, every grid point gets a
\* row, and every row has null est, p25, p75 and effN <= 1.
C10_SingleObservationAllNull ==
  \A c \in Calls :
    (Len(args[c].x) = 1 /\ args[c].min_eff_n > 1) =>
      /\ pc[c] # "raised"
      /\ Len(est[c]) = Len(effN[c])
      /\ \A k \in 1..Len(effN[c]) :
           effN[c][k] <= 1 /\ est[c][k] = NaN /\ p25[c][k] = NaN /\ p75[c][k] = NaN
      /\ pc[c] = "done" =>
           /\ Len(table[c]) = Len(args[c].grid)
           /\ \A k \in 1..Len(table[c]) : NullTriple(table[c][k]) /\ table[c][k].effN <= 1

\* a table of two null rows for one observation that is relevant at a grid point
C10_Witness ==
  /\ pc[1] = "done"
  /\ Len(args[1].x) = 1
  /\ args[1].min_eff_n > 1
  /\ args[1].sigma > 0
  /\ Len(table[1]) = 2
  /\ table[1][1].effN = 1
  /\ NullTriple(table[1][1])

\* ------------------------------------------------- a call that runs alone
NullRow(g, n) == [shock |-> g, est |-> NaN, p25 |-> NaN, p75 |-> NaN, effN |-> n]

BandRow(a, g, w, b) ==
  [shock |-> g, est |-> Average(a.y, w, [i \in 1..Len(w) |-> i]),
   p25 |-> Percentile(b.bs, 1), p75 |-> Percentile(b.bs, 3), effN |-> NEff(w)]

BandAlone(a, prev, g, w, b) == [rows |-> Append(prev.rows, BandRow(a, g, w, b)), rng |-> b.rng]

StepAlone(a, prev, g, w) ==
  IF Underdetermined(w, a.min_eff_n)
  THEN [rows |-> Append(prev.rows, NullRow(g, NEff(w))), rng |-> Continue(prev.rng)]
  ELSE BandAlone(a, prev, g, w, Bootstrap(a.y, w, prev.rng, a.n_boot))

\* the first k rows of a call with valid arguments a that starts from the
\* generator r and runs with nothing else going on, and its generator then
RECURSIVE Alone(_, _, _)
Alone(a, r, k) ==
  IF k = 0 THEN [rows |-> <<>>, rng |-> r]
  ELSE StepAlone(a, Alone(a, r, k - 1), a.grid[k], Weights(a.x, a.grid[k], a.sigma))

\* the rows call c has so far
Rows(c) == DataFrame(SubSeq(args[c].grid, 1, Len(est[c])), est[c], p25[c], p75[c], effN[c])

AsAlone(c, alone) ==
  /\ Rows(c) = alone.rows
  /\ rng[c] = alone.rng
  /\ pc[c] = "done" => (table[c] = alone.rows /\ Len(table[c]) = Len(args[c].grid))

\* C11: calls do not interfere through the generator.  Under any interleaving
\* of the steps of two calls, each call has after each of its grid points the
\* rows and the generator position it has there when it runs alone, and
\* returns the table it returns alone.
C11_InterleavedAsAlone ==
  \A c \in Calls :
    (ValidArgs(args[c]) /\ pc[c] \in {"running", "done"}) =>
      \E e \in Entropy :
        AsAlone(c, Alone(args[c], DefaultRng(args[c].seed, e), Len(est[c])))

\* both calls are in the middle of their grids, each after a grid point with
\* bootstrap draws and before another, and their rows so far differ
C11_Witness ==
  /\ \A c \in Calls :
       /\ pc[c] = "running"
       /\ Len(est[c]) = 1
       /\ Len(args[c].grid) > 1
       /\ rng[c].draws > 0
       /\ est[c][1] # NaN
       /\ p25[c][1] # p75[c][1]
  /\ args[1].seed # args[2].seed
  /\ p25[1] # p25[2]

\* the sequence s without its j-th element
Remove(s, j) == SubSeq(s, 1, j - 1) \o SubSeq(s, j + 1, Len(s))

\* the grid points so far at which call c found too little data
UnderdeterminedAt(c) ==
  {k \in 1..Len(est[c]) : Underdetermined(WeightsAt(c, k), args[c].min_eff_n)}

\* the table of call c is, but for row j, the table alone of the same call on
\* the grid without its j-th point
SameWithout(c, j, alone) == alone.rows = Remove(table[c], j) /\ alone.rng = rng[c]

\* C13: an underdetermined grid point leaves the generator where it was and
\* every other grid point advances it by n_boot resamples of len(x) draws, so
\* a returned table less the row of an underdetermined grid point is the
\* table, p25 and p75 included, of the same call on the grid without that
\* point (and the table with the row is that of the grid with the point
\* inserted).
C13_UnderdeterminedLeavesGenerator ==
  \A c \in Calls :
    /\ pc[c] \in {"running", "done"} =>
         rng[c].draws =
           args[c].n_boot * Len(args[c].x) * (Len(est[c]) - Cardinality(UnderdeterminedAt(c)))
    /\ pc[c] = "done" =>
         \A j \in UnderdeterminedAt(c) :
           \E e \in Entropy :
             SameWithout(c, j, Alone([args[c] EXCEPT !.grid = Remove(@, j)],
                                     DefaultRng(args[c].seed, e), Len(args[c].grid) - 1))

\* a returned table whose first row is underdetermined and whose second row
\* has an estimate and a band that rests on bootstrap draws
C13_Witness ==
  /\ pc[1] = "done"
  /\ ValidArgs(args[1])
  /\ Len(table[1]) = 2
  /\ UnderdeterminedAt(1) = {1}
  /\ table[1][1].effN > 0
  /\ rng[1].draws = args[1].n_boot * Len(args[1].x)
  /\ table[1][2].p25 # table[1][2].p75

MinOf(y) == CHOOSE v \in {y[i] : i \in 1..Len(y)} : \A i \in 1..Len(y) : v <= y[i]

MaxOf(y) == CHOOSE v \in {y[i] : i \in 1..Len(y)} : \A i \in 1..Len(y) : v >= y[i]

\* the fraction v is a number from lo to hi
Within(v, lo, hi) == v # NaN /\ lo * v[2] <= v[1] /\ v[1] <= hi * v[2]

\* est, p25 and p75 of the row lie from min(y) to max(y), and p25 <= p75
BandInRange(row, y) ==
  /\ Within(row.est, MinOf(y), MaxOf(y))
  /\ Within(row.p25, MinOf(y), MaxOf(y))
  /\ Within(row.p75, MinOf(y), MaxOf(y))
  /\ ~FracLess(row.p75, row.p25)

\* C14: in every row with an estimate, est, p25 and p75 all lie between
\* min(y) and max(y) and p25 <= p75, and no resample has a zero weight sum
\* (the call does not raise).  Stated for the calls whose arguments other
\* than n_boot are valid.
C14_BandWithinObservedRange ==
  \A c \in Calls :
    ValidButBoot(args[c]) =>
      /\ pc[c] # "raised"
      /\ pc[c] = "done" =>
           \A k \in 1..Len(table[c]) :
             table[c][k].est # NaN => BandInRange(table[c][k], args[c].y)

\* the ranges passed to get_logs so far, and their number when the loop ends
ChunksCoverRange ==
  /\ \A k \in 1..Len(asked) :
       /\ asked[k].fromBlock = (IF k = 1 THEN logargs.start_block ELSE asked[k - 1].toBlock + 1)
       /\ asked[k].fromBlock <= asked[k].toBlock
       /\ asked[k].toBlock - asked[k].fromBlock + 1 <= logargs.step
       /\ asked[k].toBlock <= logargs.end_block
  /\ lpc = "done" =>
       /\ asked[Len(asked)].toBlock = logargs.end_block
       /\ Len(asked) =
            (logargs.end_block - logargs.start_block + logargs.step) \div logargs.step

\* C12: chunked_get_logs returns all log entries of the range: for
\* start_block <= end_block and step >= 1 the ranges passed to get_logs are
\* contiguous, disjoint, of at most step blocks, from start_block to
\* end_block, there are ceil((end_block - start_block + 1) / step) of them
\* when the loop ends, and the returned list holds the entry of every block
\* of the range.
C12_ChunkedReturnsAllEntries ==
  (logargs.fn = "chunked_get_logs" /\ logargs.start_block <= logargs.end_block) =>
    /\ ChunksCoverRange
    /\ lpc = "done" => out = Result(chain, logargs.start_block, logargs.end_block)

\* the ranges of C12 alone, without the returned entries
ChunkedRangesPartition ==
  (logargs.fn = "chunked_get_logs" /\ logargs.start_block <= logargs.end_block) =>
    ChunksCoverRange

\* the return value of a call of get_logs that is over
GetLogsOutcome ==
  /\ tries <= logargs.max_retry
  /\ lpc = "done" =>
       \/ out = Result(chain, params.fromBlock, params.toBlock)
       \/ out = <<>> /\ tries = logargs.max_retry

\* C15: get_logs issues at most max_retry requests for a range; it returns
\* the entries at the first answer of the explorer, and an empty list at a
\* "No records found" answer or when max_retry requests were unsuccessful;
\* it does not raise.
C15_GetLogsReturnsWithoutRaising ==
  logargs.fn = "get_logs" => (GetLogsOutcome /\ lpc # "raised")

\* C15 without "it does not raise"
GetLogsBoundedRequests == logargs.fn = "get_logs" => GetLogsOutcome

\* ---------------------------------------------- the claims on valid arguments
\* C3, C4 and C8 for the calls whose arguments satisfy the preconditions
NullTripleOnValidArgs ==
  \A c \in Calls :
    (ValidArgs(args[c]) /\ pc[c] = "done") =>
      \A k \in 1..Len(table[c]) :
        LET row == table[c][k]
            under == row.effN < args[c].min_eff_n \/ WSum(WeightsAt(c, k)) = 0
        IN  /\ row.effN = RelevantCount(WeightsAt(c, k))
            /\ (row.est = NaN) <=> under
            /\ (row.p25 = NaN) <=> under
            /\ (row.p75 = NaN) <=> under

ConstantBandOnValidArgs ==
  \A c \in Calls :
    \A v \in YVals :
      (ValidArgs(args[c]) /\ pc[c] = "done"
         /\ \A i \in 1..Len(args[c].y) : args[c].y[i] = v) =>
        \A k \in 1..Len(table[c]) :
          table[c][k].est # NaN =>
            /\ table[c][k].est = <<v, 1>>
            /\ table[c][k].p25 = <<v, 1>>
            /\ table[c][k].p75 = <<v, 1>>

\* C14 for the calls whose arguments satisfy the preconditions
BandInRangeOnValidArgs ==
  \A c \in Calls :
    (ValidArgs(args[c]) /\ pc[c] = "done") =>
      \A k \in 1..Len(table[c]) :
        table[c][k].est # NaN => BandInRange(table[c][k], args[c].y)

\* a call with valid arguments never raises
NoRaiseOnValidArgs == \A c \in Calls : ValidArgs(args[c]) => pc[c] # "raised"

====
